---- MODULE Spec2Model ----
(***************************************************************************)
(* A model of rlox: the scanner (src/src/lexing.rs), the recursive-descent *)
(* parser (src/src/parsing.rs), the tree-walking evaluator                 *)
(* (src/src/interpreter.rs) and the pipeline that chains them              *)
(* (src/src/main.rs).                                                      *)
(*                                                                         *)
(* Text is a sequence of graphemes (extended grapheme clusters), each a    *)
(* string: a carriage return followed by a line feed is the one grapheme   *)
(* "\r\n", which matches none of the scanner's patterns.                   *)
(* Option<T> is a sequence of length 0 (None) or 1 (Some).                 *)
(***************************************************************************)
EXTENDS Integers, Sequences, FiniteSets, TLC

VARIABLES source, pos, current_line, tokens, phase, error,
          it, statements, idx, output, evaluated, input, unit

vars == <<source, pos, current_line, tokens, phase, error,
          it, statements, idx, output, evaluated, input, unit>>

None == <<>>
Some(x) == <<x>>

\* U+0000, the lexeme the scanner gives the Eof token
NUL == "NUL"

----------------------------------------------------------------------------
(* Bounds of the model *)

\* longest source text drawn from Alphabet
MaxSrcLen == 4
\* most binary operators in one generated expression
MaxOps == 3
\* most prefix operators stacked before one operand
MaxPrefix == 2
\* most statements in one generated program
MaxStmts == 3
\* most lines read from the prompt
MaxUnits == 2
\* most lexemes in one generated token text
MaxTokens == 4

----------------------------------------------------------------------------
(* Graphemes: the iterator graphemes_iter is a position p in the text; the *)
(* next grapheme is src[p], and next() past the end returns None.          *)

At(src, p) == IF p \in 1..Len(src) THEN Some(src[p]) ELSE None

is_digit(g) == g \in {"0", "1", "2", "3", "4", "5", "6", "7", "8", "9"}

is_ident_start(g) ==
    g \in {"_", "A", "B", "C", "D", "E", "F", "G", "H", "I", "J", "K", "L", "M",
           "N", "O", "P", "Q", "R", "S", "T", "U", "V", "W", "X", "Y", "Z", "a",
           "b", "c", "d", "e", "f", "g", "h", "i", "j", "k", "l", "m", "n", "o",
           "p", "q", "r", "s", "t", "u", "v", "w", "x", "y", "z"}

is_ident_trailing(g) == is_digit(g) \/ is_ident_start(g)

----------------------------------------------------------------------------
(* Values.  A Number is an IEEE double, modelled as a signed fraction      *)
(* sign * num / den in lowest terms; den = 0 is an infinity (num = 1) or   *)
(* NaN (num = 0), and zero keeps its sign.  Rounding is not modelled.      *)

RECURSIVE Gcd(_, _)
Gcd(a, b) == IF b = 0 THEN a ELSE Gcd(b, a % b)

Number(sign, num, den) ==
    LET g == Gcd(num, den)
    IN  IF g = 0 THEN [type |-> "Number", sign |-> 1, num |-> 0, den |-> 0]
        ELSE [type |-> "Number", sign |-> sign, num |-> num \div g, den |-> den \div g]

Bool(b) == [type |-> "Bool", b |-> b]
String(s) == [type |-> "String", s |-> s]

Loc(b, e) == [line_begin |-> b, line_end |-> e]
single(number) == Loc(number, number)
is_single(loc) == loc.line_begin = loc.line_end
offset(loc) == loc.line_end - loc.line_begin

Token(kind, lexeme, literal, loc) ==
    [kind |-> kind, lexeme |-> lexeme, literal |-> literal, loc |-> loc]

LexingError(message, lexeme, loc) ==
    [message |-> message, lexeme |-> lexeme, loc |-> loc]

\* str::parse::<f64> on the text the number scanner accumulates: digits with
\* at most one point
DigitVal(g) ==
    CASE g = "0" -> 0 [] g = "1" -> 1 [] g = "2" -> 2 [] g = "3" -> 3
      [] g = "4" -> 4 [] g = "5" -> 5 [] g = "6" -> 6 [] g = "7" -> 7
      [] g = "8" -> 8 [] g = "9" -> 9

RECURSIVE ParseDigits(_, _, _, _, _)
ParseDigits(s, i, num, den, seen_point) ==
    IF i > Len(s) THEN Number(1, num, den)
    ELSE IF s[i] = "." THEN ParseDigits(s, i + 1, num, den, TRUE)
    ELSE ParseDigits(s, i + 1, num * 10 + DigitVal(s[i]),
                     IF seen_point THEN den * 10 ELSE den, seen_point)

parse_f64(s) == ParseDigits(s, 1, 0, 1, FALSE)

----------------------------------------------------------------------------
(* Scanner *)

Keywords ==
    { [kind |-> "And",    text |-> <<"a", "n", "d">>],
      [kind |-> "Class",  text |-> <<"c", "l", "a", "s", "s">>],
      [kind |-> "Else",   text |-> <<"e", "l", "s", "e">>],
      [kind |-> "False",  text |-> <<"f", "a", "l", "s", "e">>],
      [kind |-> "For",    text |-> <<"f", "o", "r">>],
      [kind |-> "Fun",    text |-> <<"f", "u", "n">>],
      [kind |-> "If",     text |-> <<"i", "f">>],
      [kind |-> "Nil",    text |-> <<"n", "i", "l">>],
      [kind |-> "Or",     text |-> <<"o", "r">>],
      [kind |-> "Print",  text |-> <<"p", "r", "i", "n", "t">>],
      [kind |-> "Return", text |-> <<"r", "e", "t", "u", "r", "n">>],
      [kind |-> "Super",  text |-> <<"s", "u", "p", "e", "r">>],
      [kind |-> "This",   text |-> <<"t", "h", "i", "s">>],
      [kind |-> "True",   text |-> <<"t", "r", "u", "e">>],
      [kind |-> "Var",    text |-> <<"v", "a", "r">>],
      [kind |-> "While",  text |-> <<"w", "h", "i", "l", "e">>] }

keyword_or_identifier_token(grapheme, current_line_) ==
    LET hit  == {k \in Keywords : k.text = grapheme}
        kind == IF hit = {} THEN "Identifier" ELSE (CHOOSE k \in hit : TRUE).kind
        literal == CASE kind = "False" -> Some(Bool(FALSE))
                     [] kind = "True"  -> Some(Bool(TRUE))
                     [] OTHER -> None
    IN  Token(kind, grapheme, literal, single(current_line_))

\* the position after the longest run of identifier characters from p
RECURSIVE IdentEnd(_, _)
IdentEnd(src, p) ==
    IF p <= Len(src) /\ is_ident_trailing(src[p]) THEN IdentEnd(src, p + 1) ELSE p

\* the iterator has already yielded first_char; p is the position after it
parse_identifier(src, p, first_char, current_line_) ==
    LET e == IdentEnd(src, p)
    IN  [ok  |-> TRUE,
         tok |-> keyword_or_identifier_token(<<first_char>> \o SubSeq(src, p, e - 1),
                                             current_line_),
         pos |-> e]

RECURSIVE NumberLoop(_, _, _, _)
NumberLoop(src, p, string, has_point) ==
    IF p <= Len(src) /\ is_digit(src[p])
    THEN NumberLoop(src, p + 1, Append(string, src[p]), has_point)
    ELSE IF p <= Len(src) /\ src[p] = "."
    THEN IF has_point
         THEN [ok |-> FALSE, pos |-> p, string |-> string]
         ELSE NumberLoop(src, p + 1, Append(string, "."), TRUE)
    ELSE [ok |-> TRUE, pos |-> p, string |-> string]

parse_number_literal(src, p, first_digit, current_line_) ==
    LET r == NumberLoop(src, p, <<first_digit>>, first_digit = ".")
    IN  IF r.ok
        THEN [ok  |-> TRUE,
              tok |-> Token("Number", r.string, Some(parse_f64(r.string)),
                            single(current_line_)),
              pos |-> r.pos]
        ELSE [ok  |-> FALSE,
              err |-> LexingError("Unexpected additional point while parsing number at line {}",
                                  Some(<<".">>), single(current_line_)),
              pos |-> r.pos]

\* the loop of parse_str_literal: each round takes grapheme1 = next() and
\* looks at grapheme2 = peek()
RECURSIVE StrLoop(_, _, _, _)
StrLoop(src, p, line_current, string) ==
    LET grapheme1 == At(src, p)
        grapheme2 == At(src, p + 1)
    IN  IF grapheme1 = None \/ (grapheme1 = Some("\n") /\ grapheme2 = None)
        THEN [ok |-> FALSE, pos |-> IF p <= Len(src) THEN p + 1 ELSE p,
              line |-> line_current, string |-> string]
        ELSE IF grapheme1 = Some("\\") /\ grapheme2 = Some("\"")
        THEN StrLoop(src, p + 2, line_current, string \o <<"\\", "\"">>)
        ELSE IF grapheme1 = Some("\n")
        THEN StrLoop(src, p + 1, line_current + 1, Append(string, "\n"))
        ELSE IF grapheme1 = Some("\"")
        THEN [ok |-> TRUE, pos |-> p + 1, line |-> line_current, string |-> string]
        ELSE StrLoop(src, p + 1, line_current, Append(string, src[p]))

\* a mutant of parse_str_literal: the end of input closes the string
parse_str_literal_eof_closes(src, p, line_begin) ==
    LET r == StrLoop(src, p, line_begin, <<>>)
    IN  [ok  |-> TRUE,
         tok |-> Token("String", <<"\"">> \o r.string \o <<"\"">>,
                       Some(String(r.string)), Loc(line_begin, r.line)),
         pos |-> r.pos]

\* the opening quote has been taken; p is the position after it
parse_str_literal(src, p, line_begin) ==
    LET r == StrLoop(src, p, line_begin, <<>>)
    IN  IF r.ok
        THEN [ok  |-> TRUE,
              tok |-> Token("String", <<"\"">> \o r.string \o <<"\"">>,
                            Some(String(r.string)), Loc(line_begin, r.line)),
              pos |-> r.pos]
        ELSE [ok  |-> FALSE,
              err |-> LexingError("Unexpected EOF in unterminated string", None,
                                  single(r.line)),
              pos |-> r.pos]

SingleKind(g) ==
    CASE g = "(" -> "LeftParen"  [] g = ")" -> "RightParen"
      [] g = "{" -> "LeftBrace"  [] g = "}" -> "RightBrace"
      [] g = "," -> "Comma"      [] g = "-" -> "Minus"
      [] g = "+" -> "Plus"       [] g = ";" -> "Semicolon"
      [] g = "*" -> "Star"       [] g = "\n" -> "NewLine"
      [] g \in {" ", "\r", "\t"} -> "Whitespace"

\* the operators recognised with one grapheme of lookahead: the kind alone,
\* and the kind when the second grapheme follows
TwoCharOps ==
    { [first |-> "!", second |-> "=", one |-> "Bang",    two |-> "BangEqual"],
      [first |-> "=", second |-> "=", one |-> "Equal",   two |-> "EqualEqual"],
      [first |-> "<", second |-> "=", one |-> "Less",    two |-> "LessEqual"],
      [first |-> ">", second |-> "=", one |-> "Greater", two |-> "GreaterEqual"],
      [first |-> "/", second |-> "/", one |-> "Slash",   two |-> "Comment"] }

parse_token(src, p, current_line_) ==
    LET grapheme1 == At(src, p)
        grapheme2 == At(src, p + 1)
        l == grapheme1[1]
        two == {o \in TwoCharOps : o.first = l}
    IN  IF grapheme1 = None
        THEN [ok |-> TRUE, tok |-> Token("Eof", <<NUL>>, None, single(current_line_)),
              pos |-> p]
        ELSE IF l = "\""
        THEN parse_str_literal(src, p + 1, current_line_)
        ELSE IF is_digit(l)
        THEN parse_number_literal(src, p + 1, l, current_line_)
        ELSE IF l = "."
        THEN IF grapheme2 # None /\ is_digit(grapheme2[1])
             THEN parse_number_literal(src, p + 1, l, current_line_)
             ELSE [ok |-> TRUE, tok |-> Token("Dot", <<l>>, None, single(current_line_)),
                   pos |-> p + 1]
        ELSE IF is_ident_start(l)
        THEN parse_identifier(src, p + 1, l, current_line_)
        ELSE IF l \in {" ", "\r", "\t", "(", ")", "{", "}", ",", "-", "+", ";", "*", "\n"}
        THEN [ok |-> TRUE,
              tok |-> Token(SingleKind(l), <<l>>, None, single(current_line_)),
              pos |-> p + 1]
        ELSE IF two # {}
        THEN LET o == CHOOSE o \in two : TRUE
             IN  IF grapheme2 = Some(o.second)
                 THEN [ok |-> TRUE,
                       tok |-> Token(o.two, <<o.first, o.second>>, None,
                                     single(current_line_)),
                       pos |-> p + 2]
                 ELSE [ok |-> TRUE,
                       tok |-> Token(o.one, <<l>>, None, single(current_line_)),
                       pos |-> p + 1]
        ELSE [ok  |-> FALSE,
              err |-> LexingError("Unknown token", Some(<<l>>), single(current_line_)),
              pos |-> p + 1]

\* while graphemes_iter.next() != None && graphemes_iter.peek() != Some("\n") {}
RECURSIVE consume_line(_, _)
consume_line(src, p) ==
    IF At(src, p) = None THEN p
    ELSE IF At(src, p + 1) # Some("\n") THEN consume_line(src, p + 1)
    ELSE p + 1

\* a mutant of scan_round: Whitespace tokens are pushed like any other
scan_round_keeps_whitespace(src, p, line, toks) ==
    LET r == parse_token(src, p, line)
    IN  IF ~r.ok
        THEN [status |-> "err", pos |-> r.pos, line |-> line, tokens |-> <<>>,
              err |-> Some(r.err)]
        ELSE IF r.tok.kind = "Comment"
        THEN [status |-> "loop", pos |-> consume_line(src, r.pos), line |-> line,
              tokens |-> toks, err |-> None]
        ELSE IF r.tok.kind = "NewLine"
        THEN [status |-> "loop", pos |-> r.pos, line |-> line + 1, tokens |-> toks,
              err |-> None]
        ELSE [status |-> IF r.tok.kind = "Eof" THEN "break" ELSE "loop",
              pos    |-> r.pos,
              line   |-> IF ~is_single(r.tok.loc) THEN line + offset(r.tok.loc) ELSE line,
              tokens |-> Append(toks, r.tok),
              err    |-> None]

\* one round of the loop of Scanner::scan: the token parse_token returns is
\* dropped (Whitespace), starts a comment (Comment), counts a line (NewLine)
\* or is pushed; pushing Eof ends the loop, an error ends the scan with no
\* token list
scan_round(src, p, line, toks) ==
    LET r == parse_token(src, p, line)
    IN  IF ~r.ok
        THEN [status |-> "err", pos |-> r.pos, line |-> line, tokens |-> <<>>,
              err |-> Some(r.err)]
        ELSE IF r.tok.kind = "Whitespace"
        THEN [status |-> "loop", pos |-> r.pos, line |-> line, tokens |-> toks,
              err |-> None]
        ELSE IF r.tok.kind = "Comment"
        THEN [status |-> "loop", pos |-> consume_line(src, r.pos), line |-> line,
              tokens |-> toks, err |-> None]
        ELSE IF r.tok.kind = "NewLine"
        THEN [status |-> "loop", pos |-> r.pos, line |-> line + 1, tokens |-> toks,
              err |-> None]
        ELSE [status |-> IF r.tok.kind = "Eof" THEN "break" ELSE "loop",
              pos    |-> r.pos,
              line   |-> IF ~is_single(r.tok.loc) THEN line + offset(r.tok.loc) ELSE line,
              tokens |-> Append(toks, r.tok),
              err    |-> None]

RECURSIVE ScanLoop(_, _, _, _)
ScanLoop(src, p, line, toks) ==
    LET r == scan_round(src, p, line, toks)
    IN  IF r.status = "loop" THEN ScanLoop(src, r.pos, r.line, r.tokens) ELSE r

\* Scanner::new(src).scan(): [status |-> "break", tokens] is Ok(tokens),
\* [status |-> "err", err] is Err(err)
scan(src) == ScanLoop(src, 1, 1, <<>>)

----------------------------------------------------------------------------
(* Syntax trees (src/src/expr.rs) and statements *)

Binary(left, op, right) == [type |-> "Binary", left |-> left, op |-> op, right |-> right]
Grouping(expr) == [type |-> "Grouping", expr |-> expr]
Literal(value) == [type |-> "Literal", value |-> value]
Unary(op, right) == [type |-> "Unary", op |-> op, right |-> right]

StmtExpr(expr) == [type |-> "Expr", expr |-> expr]
StmtPrint(expr) == [type |-> "Print", expr |-> expr]

ParsingError(message, token) == [message |-> message, token |-> token]

----------------------------------------------------------------------------
(* Parser.  The iterator `it` is the index i of the next token: peek() is  *)
(* At(toks, i), next() yields it and moves to i + 1.  A parsing function   *)
(* returns [res |-> "ok", expr, it], [res |-> "err", err, it] or, where    *)
(* the code panics, [res |-> "panic", it].                                 *)

POk(expr, i) == [res |-> "ok", expr |-> expr, it |-> i]
PErr(message, token, i) == [res |-> "err", err |-> ParsingError(message, token), it |-> i]
PPanic(i) == [res |-> "panic", it |-> i]

PeekKind(toks, i) == IF i \in 1..Len(toks) THEN toks[i].kind ELSE "<none>"

\* equality, comparison, term and factor are one function written four
\* times: each parses operands with the next rule down and loops while the
\* next token is one of its own operators
level_kinds_term_factor_swapped(name) ==
    CASE name = "equality"   -> {"BangEqual", "EqualEqual"}
      [] name = "comparison" -> {"Greater", "GreaterEqual", "Less", "LessEqual"}
      [] name = "term"       -> {"Slash", "Star"}
      [] name = "factor"     -> {"Minus", "Plus"}

level_kinds(name) ==
    CASE name = "equality"   -> {"BangEqual", "EqualEqual"}
      [] name = "comparison" -> {"Greater", "GreaterEqual", "Less", "LessEqual"}
      [] name = "term"       -> {"Minus", "Plus"}
      [] name = "factor"     -> {"Slash", "Star"}

operand_rule(name) ==
    CASE name = "equality"   -> "comparison"
      [] name = "comparison" -> "term"
      [] name = "term"       -> "factor"
      [] name = "factor"     -> "unary"

expect_closing_paren(toks, i) ==
    IF i > Len(toks) THEN PPanic(i)
    ELSE IF toks[i].kind = "RightParen" THEN [res |-> "ok", it |-> i + 1]
    ELSE PErr("Syntax error: expected ')'", toks[i], i + 1)

\* a mutant of expect_semicolon: the error carries the token before the one
\* that was found in place of the semicolon
expect_semicolon_reports_previous(toks, i) ==
    IF i > Len(toks) THEN PPanic(i)
    ELSE IF toks[i].kind = "Semicolon" THEN [res |-> "ok", it |-> i + 1]
    ELSE PErr("Syntax error: expected ';'", toks[i - 1], i + 1)

\* a mutant of expect_semicolon: the end of the tokens is taken for the
\* semicolon of the last statement
expect_semicolon_accepts_eof(toks, i) ==
    IF i > Len(toks) THEN PPanic(i)
    ELSE IF toks[i].kind \in {"Semicolon", "Eof"} THEN [res |-> "ok", it |-> i + 1]
    ELSE PErr("Syntax error: expected ';'", toks[i], i + 1)

expect_semicolon(toks, i) ==
    IF i > Len(toks) THEN PPanic(i)
    ELSE IF toks[i].kind = "Semicolon" THEN [res |-> "ok", it |-> i + 1]
    ELSE PErr("Syntax error: expected ';'", toks[i], i + 1)

RECURSIVE rule(_, _, _)
RECURSIVE while_loop(_, _, _)

\* a mutant of while_loop: the right operand is parsed with the rule itself,
\* which takes the rest of the chain, so the chain nests to the right
while_loop_right_assoc(name, toks, l) ==
    IF PeekKind(toks, l.it) \in level_kinds(name)
    THEN LET right == rule(name, toks, l.it + 1)
         IN  IF right.res # "ok" THEN right
             ELSE POk(Binary(l.expr, toks[l.it], right.expr), right.it)
    ELSE l

\* the while loop of equality / comparison / term / factor: l is the result
\* holding `left` so far
while_loop(name, toks, l) ==
    IF PeekKind(toks, l.it) \in level_kinds(name)
    THEN LET right == rule(operand_rule(name), toks, l.it + 1)
         IN  IF right.res # "ok" THEN right
             ELSE while_loop(name, toks,
                             POk(Binary(l.expr, toks[l.it], right.expr), right.it))
    ELSE l

\* the grammar function `name` called with the iterator at token i
rule(name, toks, i) ==
    CASE name = "expression" -> rule("equality", toks, i)
      [] name \in {"equality", "comparison", "term", "factor"} ->
            LET left == rule(operand_rule(name), toks, i)
            IN  IF left.res # "ok" THEN left ELSE while_loop(name, toks, left)
      [] name = "unary" ->
            IF PeekKind(toks, i) \in {"Bang", "Minus"}
            THEN LET right == rule("unary", toks, i + 1)
                 IN  IF right.res # "ok" THEN right
                     ELSE POk(Unary(toks[i], right.expr), right.it)
            ELSE rule("primary", toks, i)
      [] name = "primary" ->
            IF i > Len(toks) THEN PPanic(i)
            ELSE IF toks[i].kind \in {"False", "True", "Nil", "Number", "String"}
            THEN POk(Literal(toks[i].literal), i + 1)
            ELSE IF toks[i].kind = "LeftParen"
            THEN LET e == rule("expression", toks, i + 1)
                 IN  IF e.res # "ok" THEN e
                     ELSE LET c == expect_closing_paren(toks, e.it)
                          IN  IF c.res # "ok" THEN c ELSE POk(Grouping(e.expr), c.it)
            ELSE IF toks[i].kind = "Eof"
            THEN PErr("Syntax error: expected primary expression, got EOF", toks[i], i + 1)
            ELSE PErr("Syntax error: unexpected token", toks[i], i + 1)

expression(toks, i) == rule("expression", toks, i)
equality(toks, i)   == rule("equality", toks, i)
comparison(toks, i) == rule("comparison", toks, i)
term(toks, i)       == rule("term", toks, i)
factor(toks, i)     == rule("factor", toks, i)
unary(toks, i)      == rule("unary", toks, i)
primary(toks, i)    == rule("primary", toks, i)

expression_statement(toks, i) ==
    LET e == expression(toks, i)
    IN  IF e.res # "ok" THEN e
        ELSE LET semi == expect_semicolon(toks, e.it)
             IN  IF semi.res # "ok" THEN semi
                 ELSE [res |-> "ok", stmt |-> StmtExpr(e.expr), it |-> semi.it]

print_statement(toks, i) ==
    LET e == expression(toks, i)
    IN  IF e.res # "ok" THEN e
        ELSE LET semi == expect_semicolon(toks, e.it)
             IN  IF semi.res # "ok" THEN semi
                 ELSE [res |-> "ok", stmt |-> StmtPrint(e.expr), it |-> semi.it]

\* one round of the loop of parse: [res |-> "break"] at Eof, else the
\* statement parsed and the iterator after it, or the error that ends parse
parse_round(toks, i) ==
    IF PeekKind(toks, i) = "Eof" THEN [res |-> "break", it |-> i]
    ELSE IF PeekKind(toks, i) = "Print" THEN print_statement(toks, i + 1)
    ELSE expression_statement(toks, i)

RECURSIVE ParseLoop(_, _, _)
ParseLoop(toks, i, stmts) ==
    LET r == parse_round(toks, i)
    IN  IF r.res = "ok" THEN ParseLoop(toks, r.it, Append(stmts, r.stmt))
        ELSE IF r.res = "break" THEN [res |-> "ok", statements |-> stmts, it |-> r.it]
        ELSE r

\* parse(&tokens): [res |-> "ok", statements], [res |-> "err", err] or a panic
parse(toks) == ParseLoop(toks, 1, <<>>)

----------------------------------------------------------------------------
(* Arithmetic and comparison of doubles on the signed fractions *)

NaN == [type |-> "Number", sign |-> 1, num |-> 0, den |-> 0]
Inf(sign) == [type |-> "Number", sign |-> sign, num |-> 1, den |-> 0]
IsNaN(x) == x.den = 0 /\ x.num = 0
IsInf(x) == x.den = 0 /\ x.num = 1
IsZero(x) == x.den # 0 /\ x.num = 0
Abs(n) == IF n < 0 THEN -n ELSE n

F64Neg(x) == IF IsNaN(x) THEN x ELSE [x EXCEPT !.sign = -x.sign]

F64Add(x, y) ==
    IF IsNaN(x) \/ IsNaN(y) THEN NaN
    ELSE IF IsInf(x) /\ IsInf(y) THEN (IF x.sign = y.sign THEN x ELSE NaN)
    ELSE IF IsInf(x) THEN x
    ELSE IF IsInf(y) THEN y
    ELSE LET n == x.sign * x.num * y.den + y.sign * y.num * x.den
         IN  IF n = 0
             THEN Number(IF x.sign = -1 /\ y.sign = -1 THEN -1 ELSE 1, 0, 1)
             ELSE Number(IF n < 0 THEN -1 ELSE 1, Abs(n), x.den * y.den)

F64Sub(x, y) == F64Add(x, F64Neg(y))

F64Mul(x, y) ==
    IF IsNaN(x) \/ IsNaN(y) THEN NaN
    ELSE IF (IsInf(x) /\ IsZero(y)) \/ (IsZero(x) /\ IsInf(y)) THEN NaN
    ELSE IF IsInf(x) \/ IsInf(y) THEN Inf(x.sign * y.sign)
    ELSE Number(x.sign * y.sign, x.num * y.num, x.den * y.den)

F64Div(x, y) ==
    IF IsNaN(x) \/ IsNaN(y) THEN NaN
    ELSE IF (IsInf(x) /\ IsInf(y)) \/ (IsZero(x) /\ IsZero(y)) THEN NaN
    ELSE IF IsInf(x) \/ IsZero(y) THEN Inf(x.sign * y.sign)
    ELSE IF IsInf(y) THEN Number(x.sign * y.sign, 0, 1)
    ELSE Number(x.sign * y.sign, x.num * y.den, x.den * y.num)

\* -1, 0 or 1 as x is below, equal to or above y; neither is NaN
F64Cmp(x, y) ==
    LET a == IF IsInf(x) /\ IsInf(y) THEN x.sign ELSE x.sign * x.num * y.den
        b == IF IsInf(x) /\ IsInf(y) THEN y.sign ELSE y.sign * y.num * x.den
    IN  IF a < b THEN -1 ELSE IF a > b THEN 1 ELSE 0

F64Lt(x, y) == ~IsNaN(x) /\ ~IsNaN(y) /\ F64Cmp(x, y) < 0
F64Le(x, y) == ~IsNaN(x) /\ ~IsNaN(y) /\ F64Cmp(x, y) <= 0
F64Gt(x, y) == ~IsNaN(x) /\ ~IsNaN(y) /\ F64Cmp(x, y) > 0
F64Ge(x, y) == ~IsNaN(x) /\ ~IsNaN(y) /\ F64Cmp(x, y) >= 0
F64Eq(x, y) == ~IsNaN(x) /\ ~IsNaN(y) /\ F64Cmp(x, y) = 0

\* #[derive(PartialEq)] on LiteralValue
LiteralValueEq(a, b) ==
    /\ a.type = b.type
    /\ CASE a.type = "Number" -> F64Eq(a, b)
         [] a.type = "Bool"   -> a.b = b.b
         [] a.type = "String" -> a.s = b.s

\* the decimal digits of a natural number
DigitChar(d) ==
    CASE d = 0 -> "0" [] d = 1 -> "1" [] d = 2 -> "2" [] d = 3 -> "3" [] d = 4 -> "4"
      [] d = 5 -> "5" [] d = 6 -> "6" [] d = 7 -> "7" [] d = 8 -> "8" [] d = 9 -> "9"

RECURSIVE NatDigits(_)
NatDigits(n) ==
    IF n < 10 THEN <<DigitChar(n)>> ELSE Append(NatDigits(n \div 10), DigitChar(n % 10))

\* the digits after the point of rem / den, by long division; a fraction
\* that does not terminate is cut at 16 digits
RECURSIVE FracDigits(_, _, _)
FracDigits(rem, den, left) ==
    IF rem = 0 \/ left = 0 THEN <<>>
    ELSE <<DigitChar((rem * 10) \div den)>> \o FracDigits((rem * 10) % den, den, left - 1)

\* f64::to_string
f64_to_string(x) ==
    IF IsNaN(x) THEN <<"N", "a", "N">>
    ELSE (IF x.sign = -1 THEN <<"-">> ELSE <<>>) \o
         (IF IsInf(x) THEN <<"i", "n", "f">>
          ELSE NatDigits(x.num \div x.den) \o
               (IF x.num % x.den = 0 THEN <<>>
                ELSE <<".">> \o FracDigits(x.num % x.den, x.den, 16)))

bool_to_string(b) == IF b THEN <<"t", "r", "u", "e">> ELSE <<"f", "a", "l", "s", "e">>

----------------------------------------------------------------------------
(* Display for Expr (src/src/expr.rs) *)

RECURSIVE expr_to_string(_)

RECURSIVE ConcatSpaced(_)
ConcatSpaced(exprs) ==
    IF exprs = <<>> THEN <<>>
    ELSE <<" ">> \o expr_to_string(Head(exprs)) \o ConcatSpaced(Tail(exprs))

parenthesize(name, exprs) == <<"(">> \o name \o ConcatSpaced(exprs) \o <<")">>

expr_to_string(e) ==
    CASE e.type = "Binary"   -> parenthesize(e.op.lexeme, <<e.left, e.right>>)
      [] e.type = "Grouping" -> parenthesize(<<"g", "r", "o", "u", "p">>, <<e.expr>>)
      [] e.type = "Literal"  ->
            IF e.value = None THEN <<"n", "i", "l">>
            ELSE CASE e.value[1].type = "Bool"   -> bool_to_string(e.value[1].b)
                   [] e.value[1].type = "Number" -> f64_to_string(e.value[1])
                   [] e.value[1].type = "String" -> e.value[1].s
      [] e.type = "Unary"    -> parenthesize(e.op.lexeme, <<e.right>>)

----------------------------------------------------------------------------
(* Evaluator.  evaluate returns [ok |-> TRUE, value] (value an             *)
(* Option<LiteralValue>, None being nil) or [ok |-> FALSE, err]; `calls`   *)
(* lists the expressions evaluate was called on, in call order.            *)

RuntimeError(message, loc) == [message |-> message, loc |-> loc]

EOk(value, calls) == [ok |-> TRUE, value |-> value, calls |-> calls]

IsNumber(v) == v # None /\ v[1].type = "Number"
IsString(v) == v # None /\ v[1].type = "String"

is_equal(lhs, rhs) ==
    IF lhs = None /\ rhs = None THEN TRUE
    ELSE IF lhs = None \/ rhs = None THEN FALSE
    ELSE LiteralValueEq(lhs[1], rhs[1])

\* a mutant of is_truthy: the number zero is falsy too
is_truthy_zero_is_falsy(v) ==
    IF v # None /\ v[1].type = "Bool" THEN v[1].b
    ELSE IF v = None THEN FALSE
    ELSE IF v[1].type = "Number" /\ IsZero(v[1]) THEN FALSE
    ELSE TRUE

is_truthy(v) ==
    IF v # None /\ v[1].type = "Bool" THEN v[1].b
    ELSE IF v = None THEN FALSE
    ELSE TRUE

\* a mutant of expect_numbers: only the left operand is required to be a
\* Number, and stands in for a right operand that is none
expect_numbers_checks_left_only(lhs, op, rhs) ==
    IF IsNumber(lhs)
    THEN [ok |-> TRUE, lhs |-> lhs[1], rhs |-> IF IsNumber(rhs) THEN rhs[1] ELSE lhs[1]]
    ELSE [ok |-> FALSE,
          err |-> RuntimeError(<<"Binary operator ">> \o op.lexeme
                               \o <<" expects two numeric operands">>, op.loc)]

\* Ok((lhs, rhs)) or the error, which names the operator and carries its loc
expect_numbers(lhs, op, rhs) ==
    IF IsNumber(lhs) /\ IsNumber(rhs)
    THEN [ok |-> TRUE, lhs |-> lhs[1], rhs |-> rhs[1]]
    ELSE [ok |-> FALSE,
          err |-> RuntimeError(<<"Binary operator ">> \o op.lexeme
                               \o <<" expects two numeric operands">>, op.loc)]

expect_number(op, rhs) ==
    IF IsNumber(rhs)
    THEN [ok |-> TRUE, rhs |-> rhs[1]]
    ELSE [ok |-> FALSE,
          err |-> RuntimeError(<<"Unary operator ">> \o op.lexeme
                               \o <<" expects a numeric operand">>, op.loc)]

\* the match on op.kind of a Binary node, both operands evaluated
apply_binary(left, op, right) ==
    LET n == expect_numbers(left, op, right)
        fail == [ok |-> FALSE, err |-> n.err]
        Ok(v) == [ok |-> TRUE, value |-> Some(v)]
    IN  CASE op.kind = "BangEqual"    -> Ok(Bool(~is_equal(left, right)))
          [] op.kind = "EqualEqual"   -> Ok(Bool(is_equal(left, right)))
          [] op.kind = "Greater"      -> IF n.ok THEN Ok(Bool(F64Gt(n.lhs, n.rhs))) ELSE fail
          [] op.kind = "GreaterEqual" -> IF n.ok THEN Ok(Bool(F64Ge(n.lhs, n.rhs))) ELSE fail
          [] op.kind = "Less"         -> IF n.ok THEN Ok(Bool(F64Lt(n.lhs, n.rhs))) ELSE fail
          [] op.kind = "LessEqual"    -> IF n.ok THEN Ok(Bool(F64Le(n.lhs, n.rhs))) ELSE fail
          [] op.kind = "Minus"        -> IF n.ok THEN Ok(F64Sub(n.lhs, n.rhs)) ELSE fail
          [] op.kind = "Plus"         ->
                IF IsNumber(left) /\ IsNumber(right)
                THEN Ok(F64Add(left[1], right[1]))
                ELSE IF IsString(left) /\ IsString(right)
                THEN Ok(String(left[1].s \o right[1].s))
                ELSE [ok |-> FALSE,
                      err |-> RuntimeError(<<"Operator ">> \o op.lexeme \o
                                  <<" expects either two numeric or two string operands">>,
                                  op.loc)]
          [] op.kind = "Slash"        -> IF n.ok THEN Ok(F64Div(n.lhs, n.rhs)) ELSE fail
          [] op.kind = "Star"         -> IF n.ok THEN Ok(F64Mul(n.lhs, n.rhs)) ELSE fail
          [] OTHER -> [ok |-> FALSE,
                       err |-> RuntimeError(<<"Invalid binary operator ">> \o op.lexeme,
                                            op.loc)]

apply_unary(op, right) ==
    CASE op.kind = "Minus" ->
            LET n == expect_number(op, right)
            IN  IF n.ok THEN [ok |-> TRUE, value |-> Some(F64Neg(n.rhs))]
                ELSE [ok |-> FALSE, err |-> n.err]
      [] op.kind = "Bang" -> [ok |-> TRUE, value |-> Some(Bool(~is_truthy(right)))]
      [] OTHER -> [ok |-> FALSE,
                   err |-> RuntimeError(<<"invalid unary operator?">>, op.loc)]

RECURSIVE evaluate(_)

\* a mutant of evaluate: the right operand of a Binary node is evaluated
\* before the left one
evaluate_right_first(expr) ==
    CASE expr.type = "Binary" ->
            LET right == evaluate(expr.right)
            IN  IF ~right.ok THEN [right EXCEPT !.calls = <<expr>> \o @]
                ELSE LET left == evaluate(expr.left)
                         calls == <<expr>> \o right.calls \o left.calls
                     IN  IF ~left.ok THEN [left EXCEPT !.calls = calls]
                         ELSE LET r == apply_binary(left.value, expr.op, right.value)
                              IN  IF r.ok THEN EOk(r.value, calls)
                                  ELSE [ok |-> FALSE, err |-> r.err, calls |-> calls]
      [] expr.type = "Grouping" ->
            LET inner == evaluate(expr.expr)
            IN  [inner EXCEPT !.calls = <<expr>> \o @]
      [] expr.type = "Literal" -> EOk(expr.value, <<expr>>)
      [] expr.type = "Unary" ->
            LET right == evaluate(expr.right)
                calls == <<expr>> \o right.calls
            IN  IF ~right.ok THEN [right EXCEPT !.calls = calls]
                ELSE LET r == apply_unary(expr.op, right.value)
                     IN  IF r.ok THEN EOk(r.value, calls)
                         ELSE [ok |-> FALSE, err |-> r.err, calls |-> calls]

evaluate(expr) ==
    CASE expr.type = "Binary" ->
            LET left == evaluate(expr.left)
            IN  IF ~left.ok THEN [left EXCEPT !.calls = <<expr>> \o @]
                ELSE LET right == evaluate(expr.right)
                         calls == <<expr>> \o left.calls \o right.calls
                     IN  IF ~right.ok THEN [right EXCEPT !.calls = calls]
                         ELSE LET r == apply_binary(left.value, expr.op, right.value)
                              IN  IF r.ok THEN EOk(r.value, calls)
                                  ELSE [ok |-> FALSE, err |-> r.err, calls |-> calls]
      [] expr.type = "Grouping" ->
            LET inner == evaluate(expr.expr)
            IN  [inner EXCEPT !.calls = <<expr>> \o @]
      [] expr.type = "Literal" -> EOk(expr.value, <<expr>>)
      [] expr.type = "Unary" ->
            LET right == evaluate(expr.right)
                calls == <<expr>> \o right.calls
            IN  IF ~right.ok THEN [right EXCEPT !.calls = calls]
                ELSE LET r == apply_unary(expr.op, right.value)
                     IN  IF r.ok THEN EOk(r.value, calls)
                         ELSE [ok |-> FALSE, err |-> r.err, calls |-> calls]

stringify(value) ==
    IF value = None THEN <<"n", "i", "l">>
    ELSE CASE value[1].type = "Bool"   -> bool_to_string(value[1].b)
           [] value[1].type = "Number" -> f64_to_string(value[1])
           [] value[1].type = "String" -> value[1].s

\* execute(stmt): the lines it prints, or the error
execute(stmt) ==
    LET v == evaluate(stmt.expr)
    IN  IF ~v.ok THEN [ok |-> FALSE, err |-> v.err, printed |-> <<>>, calls |-> v.calls]
        ELSE [ok |-> TRUE,
              printed |-> IF stmt.type = "Print" THEN <<stringify(v.value)>> ELSE <<>>,
              calls |-> v.calls]

----------------------------------------------------------------------------
(* The pipeline run(line) of src/src/main.rs as a state machine.  phase is *)
(* the stage run is in: "scan", "parse", "interpret", then "done" when run *)
(* returns, or "panic".  error is the error run has reported, if any, and  *)
(* output the lines it has printed.  input is what the process is given:   *)
(* the content of the file (run_file, one unit) or the lines read from the *)
(* prompt (run_prompt, a unit each); source is unit number `unit` of it.   *)

Reported(stage, err) == Some([stage |-> stage, err |-> err])

\* one round of the loop of Scanner::scan; when scan returns, run goes on to
\* parse only if more than the Eof token came back
ScanRound ==
    /\ phase = "scan"
    /\ LET r == scan_round(source, pos, current_line, tokens)
       IN  /\ pos' = r.pos
           /\ current_line' = r.line
           /\ tokens' = r.tokens
           /\ phase' = IF r.status = "loop" THEN "scan"
                       ELSE IF r.status = "break" /\ Len(r.tokens) > 1 THEN "parse"
                       ELSE "done"
           /\ error' = IF r.status = "err" THEN Reported("LexingError", r.err[1]) ELSE error
    /\ UNCHANGED <<source, it, statements, idx, output, evaluated, input, unit>>

\* a mutant of ParseRound: when a statement fails to parse, the error is
\* reported and the statements parsed before it are interpreted
ParseRound_interprets_parsed_statements ==
    /\ phase = "parse"
    /\ LET r == parse_round(tokens, it)
       IN  /\ it' = r.it
           /\ statements' = IF r.res = "ok" THEN Append(statements, r.stmt)
                            ELSE statements
           /\ phase' = CASE r.res = "ok"    -> "parse"
                         [] r.res = "break" -> "interpret"
                         [] r.res = "err"   -> "interpret"
                         [] r.res = "panic" -> "panic"
           /\ error' = IF r.res = "err" THEN Reported("ParsingError", r.err) ELSE error
    /\ UNCHANGED <<source, pos, current_line, tokens, idx, output, evaluated, input, unit>>

\* one round of the loop of parse
ParseRound ==
    /\ phase = "parse"
    /\ LET r == parse_round(tokens, it)
       IN  /\ it' = r.it
           /\ statements' = IF r.res = "ok" THEN Append(statements, r.stmt)
                            ELSE IF r.res = "break" THEN statements
                            ELSE <<>>
           /\ phase' = CASE r.res = "ok"    -> "parse"
                         [] r.res = "break" -> "interpret"
                         [] r.res = "err"   -> "done"
                         [] r.res = "panic" -> "panic"
           /\ error' = IF r.res = "err" THEN Reported("ParsingError", r.err) ELSE error
    /\ UNCHANGED <<source, pos, current_line, tokens, idx, output, evaluated, input, unit>>

\* a mutant of Execute: the loop goes on to the next statement after a
\* statement has failed
Execute_goes_on_after_error ==
    /\ phase = "interpret"
    /\ idx <= Len(statements)
    /\ LET r == execute(statements[idx])
       IN  /\ output' = output \o r.printed
           /\ evaluated' = evaluated \o r.calls
           /\ idx' = idx + 1
           /\ phase' = "interpret"
           /\ error' = IF r.ok THEN error ELSE Reported("RuntimeError", r.err)
    /\ UNCHANGED <<source, pos, current_line, tokens, it, statements, input, unit>>

\* one round of the for loop of interpret: execute(stmt)?
Execute ==
    /\ phase = "interpret"
    /\ idx <= Len(statements)
    /\ LET r == execute(statements[idx])
       IN  /\ output' = output \o r.printed
           /\ evaluated' = evaluated \o r.calls
           /\ idx' = IF r.ok THEN idx + 1 ELSE idx
           /\ phase' = IF r.ok THEN "interpret" ELSE "done"
           /\ error' = IF r.ok THEN error ELSE Reported("RuntimeError", r.err)
    /\ UNCHANGED <<source, pos, current_line, tokens, it, statements, input, unit>>

\* the for loop of interpret is over: Ok(())
InterpretReturn ==
    /\ phase = "interpret"
    /\ idx > Len(statements)
    /\ phase' = "done"
    /\ UNCHANGED <<source, pos, current_line, tokens, error, it, statements, idx,
                   output, evaluated, input, unit>>

Next == ScanRound \/ ParseRound \/ Execute \/ InterpretReturn

\* one round of the loop of run_prompt after run has returned: the next
\* line is read and run is entered with it
ReadLine ==
    /\ phase = "done"
    /\ unit < Len(input)
    /\ unit' = unit + 1
    /\ source' = input[unit + 1]
    /\ pos' = 1
    /\ current_line' = 1
    /\ tokens' = <<>>
    /\ phase' = "scan"
    /\ error' = None
    /\ it' = 1
    /\ statements' = <<>>
    /\ idx' = 1
    /\ output' = <<>>
    /\ evaluated' = <<>>
    /\ UNCHANGED input

NextPrompt == Next \/ ReadLine

\* run(line) is entered with the text `line`
Start(line) ==
    /\ source = line
    /\ pos = 1
    /\ current_line = 1
    /\ tokens = <<>>
    /\ phase = "scan"
    /\ error = None
    /\ it = 1
    /\ statements = <<>>
    /\ idx = 1
    /\ output = <<>>
    /\ evaluated = <<>>

----------------------------------------------------------------------------
(* The source texts checked *)

Alphabet == {"/", "\n", "\"", "\\", "1", ".", "o", "r", " ", ";"}

\* every text of at most MaxSrcLen graphemes of Alphabet
Texts == UNION {[1..k -> Alphabet] : k \in 0..MaxSrcLen}

Init == \E line \in Texts : Start(line) /\ input = <<line>> /\ unit = 1

Spec == Init /\ [][Next]_vars

----------------------------------------------------------------------------
(* Programs: source texts built from lexemes, for the parser and the       *)
(* evaluator                                                               *)

BinOpTexts ==
    { <<"!", "=">>, <<"=", "=">>, <<">">>, <<">", "=">>, <<"<">>, <<"<", "=">>,
      <<"-">>, <<"+">>, <<"/">>, <<"*">> }

PrefixTexts == { <<"!">>, <<"-">> }

RECURSIVE Flatten(_)
Flatten(texts) == IF texts = <<>> THEN <<>> ELSE Head(texts) \o Flatten(Tail(texts))

\* 1 op 2 op 3 ... ; with at most MaxOps operators
RECURSIVE ChainTail(_, _)
ChainTail(ops, k) ==
    IF k > Len(ops) THEN <<";">>
    ELSE ops[k] \o <<DigitChar(k + 1)>> \o ChainTail(ops, k + 1)

ChainTexts ==
    { <<"1">> \o ChainTail(ops, 1) :
        ops \in UNION {[1..n -> BinOpTexts] : n \in 1..MaxOps} }

\* operands under at most MaxPrefix prefix operators: p 1 ; and p 1 op q 2 ;
PrefixChains == {Flatten(c) : c \in UNION {[1..n -> PrefixTexts] : n \in 0..MaxPrefix}}

PrefixTexts1 == {pre \o <<"1", ";">> : pre \in PrefixChains}

PrefixTexts2 ==
    { x[1] \o <<"1">> \o x[2] \o x[3] \o <<"2", ";">> :
        x \in PrefixChains \X BinOpTexts \X PrefixChains }

\* at most MaxStmts statements, one a line; some print, some fail when
\* evaluated, some lack their semicolon or closing parenthesis
StatementTexts ==
    { <<"p", "r", "i", "n", "t", " ", "1", ";">>,
      <<"p", "r", "i", "n", "t", " ", "\"", "a", "\"", ";">>,
      <<"2", ";">>,
      <<"p", "r", "i", "n", "t", " ", "-", "n", "i", "l", ";">>,
      <<"n", "i", "l", "+", "1", ";">>,
      <<"p", "r", "i", "n", "t", " ", "1">>,
      <<"2">>,
      <<"(", "1", ";">> }

RECURSIVE Lines(_)
Lines(texts) ==
    IF texts = <<>> THEN <<>> ELSE Head(texts) \o <<"\n">> \o Lines(Tail(texts))

StatementLists ==
    {Lines(l) : l \in UNION {[1..n -> StatementTexts] : n \in 1..MaxStmts}}

\* left op right ; with the operator on a line of its own, so that the
\* errors of the operands and of the operator differ in their line
OperandTexts ==
    { <<"1">>, <<"\"", "a", "\"">>, <<"n", "i", "l">>, <<"-", "n", "i", "l">>,
      <<"-", "\"", "a", "\"">>, <<"(", "1", "+", "n", "i", "l", ")">> }

OperandPairTexts ==
    { x[1] \o <<"\n">> \o x[2] \o <<"\n">> \o x[3] \o <<";">> :
        x \in OperandTexts \X BinOpTexts \X OperandTexts }

\* expressions for the values: nil, the booleans, numbers (the zeros, an
\* infinity and NaN among them) and strings (the empty one among them)
ValueTexts ==
    { <<"n", "i", "l">>, <<"t", "r", "u", "e">>, <<"f", "a", "l", "s", "e">>,
      <<"0">>, <<"1">>, <<"(", "-", "0", ")">>, <<"(", "1", "/", "0", ")">>,
      <<"(", "0", "/", "0", ")">>, <<"\"", "\"">>, <<"\"", "a", "\"">> }

\* print left op right ; with the operator on line 2
ValuePairTexts ==
    { <<"p", "r", "i", "n", "t", " ">> \o x[1] \o <<"\n">> \o x[2] \o <<" ">>
        \o x[3] \o <<";">> :
        x \in ValueTexts \X BinOpTexts \X ValueTexts }

\* print op value ; with the operator on line 2
ValuePrefixTexts ==
    { <<"p", "r", "i", "n", "t", "\n">> \o x[1] \o x[2] \o <<";">> :
        x \in PrefixTexts \X ValueTexts }

Programs ==
    ChainTexts \cup PrefixTexts1 \cup PrefixTexts2 \cup StatementLists
        \cup OperandPairTexts \cup ValuePairTexts \cup ValuePrefixTexts

InitPrograms == \E line \in Programs : Start(line) /\ input = <<line>> /\ unit = 1

SpecPrograms == InitPrograms /\ [][Next]_vars

----------------------------------------------------------------------------
(* Token texts: every sequence of at most MaxTokens lexemes, a blank after *)
(* each.  The lexemes stand for the kinds of token the parser tells apart: *)
(* the parentheses, the semicolon, print, an operator that is prefix and   *)
(* binary, one that is prefix only, one that is binary only, a literal and *)
(* a token no rule takes.                                                  *)

Lexemes ==
    { <<"(">>, <<")">>, <<";">>, <<"p", "r", "i", "n", "t">>, <<"-">>, <<"!">>,
      <<"*">>, <<"1">>, <<"x">> }

RECURSIVE Spaced(_)
Spaced(texts) ==
    IF texts = <<>> THEN <<>> ELSE Head(texts) \o <<" ">> \o Spaced(Tail(texts))

TokenTexts == {Spaced(l) : l \in UNION {[1..n -> Lexemes] : n \in 0..MaxTokens}}

InitTokens == \E line \in TokenTexts : Start(line) /\ input = <<line>> /\ unit = 1

SpecTokens == InitTokens /\ [][Next]_vars

----------------------------------------------------------------------------
(* The prompt: the lines typed, each with its newline.  Some are run to    *)
(* the end, one is blank, one has a lexing error, one a parsing error and  *)
(* one a runtime error, each after a print statement that is valid, and    *)
(* one a runtime error before a print statement.                           *)

PromptLines ==
    { <<"p", "r", "i", "n", "t", " ", "1", ";", "\n">>,
      <<"\n">>,
      <<"/", "/", "a", "\n">>,
      <<"p", "r", "i", "n", "t", " ", "1", ";", " ", "\"", "a", "\n">>,
      <<"p", "r", "i", "n", "t", " ", "1", ";", " ", "2", "\n">>,
      <<"p", "r", "i", "n", "t", " ", "1", ";", " ", "-", "n", "i", "l", ";", "\n">>,
      <<"-", "n", "i", "l", ";", " ", "p", "r", "i", "n", "t", " ", "1", ";", "\n">> }

InitPrompt ==
    \E lines \in UNION {[1..n -> PromptLines] : n \in 1..MaxUnits} :
        Start(lines[1]) /\ input = lines /\ unit = 1

SpecPrompt == InitPrompt /\ [][NextPrompt]_vars

----------------------------------------------------------------------------
(* Properties of the scanner *)

ScanReturnedErr == error # None /\ error[1].stage = "LexingError"
ScanReturnedOk == phase # "scan" /\ ~ScanReturnedErr

\* the scanner is about to read a token that starts at pos
AtToken(g) == phase = "scan" /\ At(source, pos) = Some(g)

\* the position of the first newline at or after p, or the end of the text
RECURSIVE LineEnd(_, _)
LineEnd(src, p) ==
    IF p > Len(src) \/ src[p] = "\n" THEN p ELSE LineEnd(src, p + 1)

\* the text without the comment that starts at p: `//` and what follows it
\* up to, not including, the next newline
WithoutComment(src, p) ==
    SubSeq(src, 1, p - 1) \o SubSeq(src, LineEnd(src, p + 2), Len(src))

AtComment == AtToken("/") /\ At(source, pos + 1) = Some("/")

SameScan(a, b) == a.status = b.status /\ a.tokens = b.tokens /\ a.err = b.err

\* C1: a `//` that the scanner meets outside a string literal discards
\* exactly the text from the `//` up to, not including, the next newline:
\* the scan goes on to return what it returns for the text without the
\* comment, for a comment of any length, the empty one included.
C1_CommentIsDiscarded ==
    AtComment =>
        SameScan(ScanLoop(source, pos, current_line, tokens),
                 ScanLoop(WithoutComment(source, pos), pos, current_line, tokens))

\* the same for the comments that hold at least one grapheme before the
\* newline or the end of the text
C1_NonEmptyCommentIsDiscarded ==
    (AtComment /\ LineEnd(source, pos + 2) > pos + 2) => C1_CommentIsDiscarded

\* the position of the quote that closes the string whose body starts at p,
\* reading a backslash followed by a quote as an escape; 0 if there is none
RECURSIVE ClosingQuote(_, _)
ClosingQuote(src, p) ==
    IF p > Len(src) THEN 0
    ELSE IF src[p] = "\\" /\ At(src, p + 1) = Some("\"") THEN ClosingQuote(src, p + 2)
    ELSE IF src[p] = "\"" THEN p
    ELSE ClosingQuote(src, p + 1)

\* s with every escape backslash-quote replaced by a quote
RECURSIVE Unescape(_)
Unescape(s) ==
    IF s = <<>> THEN <<>>
    ELSE IF Len(s) >= 2 /\ s[1] = "\\" /\ s[2] = "\"" THEN <<"\"">> \o Unescape(SubSeq(s, 3, Len(s)))
    ELSE <<s[1]>> \o Unescape(Tail(s))

HasEscape(s) == \E i \in 1..(Len(s) - 1) : s[i] = "\\" /\ s[i + 1] = "\""

\* C2: a string literal that holds the escape backslash-quote scans to a
\* String token whose literal value holds a quote in place of each escape,
\* without the backslash, and the escape does not end the string: the
\* literal ends at the first quote that is not part of an escape.
C2_EscapedQuoteBecomesQuote ==
    \A close \in 1..Len(source) :
        (/\ AtToken("\"")
         /\ close = ClosingQuote(source, pos + 1)
         /\ HasEscape(SubSeq(source, pos + 1, close - 1)))
        => LET r == parse_token(source, pos, current_line)
           IN  /\ r.ok
               /\ r.tok.kind = "String"
               /\ r.pos = close + 1
               /\ r.tok.literal =
                     Some(String(Unescape(SubSeq(source, pos + 1, close - 1))))

\* C3: scanning the lexeme of any token of a successful scan, the Eof token
\* included, succeeds and gives first a token of the same kind and the same
\* literal value.
Rescans(t) ==
    LET r == scan(t.lexeme)
    IN  /\ r.status = "break"
        /\ r.tokens[1].kind = t.kind
        /\ r.tokens[1].literal = t.literal

C3_RescanIdempotent ==
    ScanReturnedOk => \A i \in 1..Len(tokens) : Rescans(tokens[i])

\* the same for the tokens before the final Eof
C3_RescanIdempotentBeforeEof ==
    ScanReturnedOk => \A i \in 1..(Len(tokens) - 1) : Rescans(tokens[i])

\* C4: the tokens of a successful scan hold exactly one Eof token, the last
\* one, and no Whitespace, Comment or NewLine token.
C4_OneEofLastNoMeta ==
    ScanReturnedOk =>
        /\ Len(tokens) >= 1
        /\ tokens[Len(tokens)].kind = "Eof"
        /\ \A i \in 1..(Len(tokens) - 1) :
              tokens[i].kind \notin {"Eof", "Whitespace", "Comment", "NewLine"}

\* a successful scan of a text that ends inside a comment, after a token
\* and a blank
C4_Witness ==
    /\ ScanReturnedOk
    /\ Len(source) >= 4
    /\ source[Len(source) - 1] = "/" /\ source[Len(source)] = "/"
    /\ source[Len(source) - 2] = " "
    /\ Len(tokens) = 2

\* the scan of the empty text
C4_WitnessEmpty == ScanReturnedOk /\ source = <<>> /\ Len(tokens) = 1

\* C5: when a quote opens a string literal and the text ends before a quote
\* closes it (also when the last grapheme is a newline), the scan returns a
\* LexingError and no tokens, not those scanned before the string either.
C5_UnterminatedStringFails ==
    (AtToken("\"") /\ ClosingQuote(source, pos + 1) = 0) =>
        LET r == ScanLoop(source, pos, current_line, tokens)
        IN  /\ r.status = "err"
            /\ r.tokens = <<>>
            /\ r.err[1].message = "Unexpected EOF in unterminated string"

\* the scan has failed on a string left open at a final newline, after it
\* had scanned a number
C5_Witness ==
    /\ phase = "done" /\ ScanReturnedErr
    /\ error[1].err.message = "Unexpected EOF in unterminated string"
    /\ tokens = <<>>
    /\ Len(source) >= 3
    /\ source[1] = "1" /\ source[2] = "\"" /\ source[Len(source)] = "\n"

----------------------------------------------------------------------------
(* Properties of the parser *)

ParseReturnedErr == error # None /\ error[1].stage = "ParsingError"

\* parse has returned Ok(statements)
ParseReturnedOk ==
    /\ phase \in {"interpret", "done"}
    /\ ScanReturnedOk /\ ~ParseReturnedErr
    /\ Len(tokens) > 1

LiteralKinds == {"False", "True", "Nil", "Number", "String"}

\* the precedence levels of the grammar, lowest first
Level(kind) ==
    CASE kind \in {"BangEqual", "EqualEqual"} -> 1
      [] kind \in {"Greater", "GreaterEqual", "Less", "LessEqual"} -> 2
      [] kind \in {"Minus", "Plus"} -> 3
      [] kind \in {"Slash", "Star"} -> 4
      [] OTHER -> 0

\* toks is  a op b op ... z ; Eof  with literals a .. z and binary operators
IsChain(toks) ==
    /\ Len(toks) >= 5 /\ Len(toks) % 2 = 1
    /\ toks[Len(toks)].kind = "Eof"
    /\ toks[Len(toks) - 1].kind = "Semicolon"
    /\ \A i \in 1..(Len(toks) - 2) :
          IF i % 2 = 1 THEN toks[i].kind \in LiteralKinds ELSE Level(toks[i].kind) > 0

Operand(toks, i) == Literal(toks[i].literal)

\* C6: a op1 b op2 c parses to Binary(a, op1, Binary(b, op2, c)) when the
\* level of op2 is strictly above that of op1, and to
\* Binary(Binary(a, op1, b), op2, c) when the level of op1 is strictly above
\* that of op2; 1 + 2 * 3 ; parses to the tree printed (+ 1 (* 2 3)).
C6_Precedence ==
    (phase \in {"interpret", "done"} /\ IsChain(tokens) /\ Len(tokens) = 7
        /\ Level(tokens[2].kind) # Level(tokens[4].kind))
    => /\ ParseReturnedOk
       /\ Len(statements) = 1
       /\ statements[1].expr =
             IF Level(tokens[4].kind) > Level(tokens[2].kind)
             THEN Binary(Operand(tokens, 1), tokens[2],
                         Binary(Operand(tokens, 3), tokens[4], Operand(tokens, 5)))
             ELSE Binary(Binary(Operand(tokens, 1), tokens[2], Operand(tokens, 3)),
                         tokens[4], Operand(tokens, 5))
       /\ (source = <<"1", "+", "2", "*", "3", ";">> =>
             expr_to_string(statements[1].expr) =
                <<"(", "+", " ", "1", " ", "(", "*", " ", "2", " ", "3", ")", ")">>)

\* 1 + 2 * 3 ; has been parsed
C6_Witness ==
    /\ phase = "done"
    /\ source = <<"1", "+", "2", "*", "3", ";">>
    /\ Len(statements) = 1
    /\ statements[1].expr.type = "Binary"
    /\ statements[1].expr.op.kind = "Plus"
    /\ statements[1].expr.right.type = "Binary"

\* the chain up to the operator at k, nested to the left
RECURSIVE LeftNested(_, _, _)
LeftNested(toks, k, acc) ==
    IF toks[k].kind = "Semicolon" THEN acc
    ELSE LeftNested(toks, k + 2, Binary(acc, toks[k], Operand(toks, k + 1)))

\* the index of the first token at or after i that is no prefix operator
RECURSIVE PrefixEnd(_, _)
PrefixEnd(toks, i) ==
    IF i <= Len(toks) /\ toks[i].kind \in {"Bang", "Minus"} THEN PrefixEnd(toks, i + 1)
    ELSE i

\* the operand at j under the prefix operators at i .. j - 1, innermost last
RECURSIVE UnaryNested(_, _, _)
UnaryNested(toks, i, j) ==
    IF i = j THEN Operand(toks, j) ELSE Unary(toks[i], UnaryNested(toks, i + 1, j))

\* toks is  p.. a ;  or  p.. a op q.. b ;  with prefix operators p, q
IsPrefixed(toks) ==
    LET j == PrefixEnd(toks, 1)
        k == PrefixEnd(toks, j + 2)
    IN  /\ j + 1 <= Len(toks) /\ toks[j].kind \in LiteralKinds
        /\ \/ toks[j + 1].kind = "Semicolon" /\ Len(toks) = j + 2
           \/ /\ Level(toks[j + 1].kind) > 0
              /\ k + 2 = Len(toks)
              /\ toks[k].kind \in LiteralKinds
              /\ toks[k + 1].kind = "Semicolon"
        /\ toks[Len(toks)].kind = "Eof"

PrefixedTree(toks) ==
    LET j == PrefixEnd(toks, 1)
        k == PrefixEnd(toks, j + 2)
    IN  IF toks[j + 1].kind = "Semicolon" THEN UnaryNested(toks, 1, j)
        ELSE Binary(UnaryNested(toks, 1, j), toks[j + 1], UnaryNested(toks, j + 2, k))

SameLevel(toks) ==
    \A i \in 1..(Len(toks) - 2) : i % 2 = 0 => Level(toks[i].kind) = Level(toks[2].kind)

\* C7: a chain of binary operators of one level nests to the left, whatever
\* its length; a chain of prefix operators nests to the right, and a
\* prefix operator takes its operand before any binary operator does.
C7_Associativity ==
    /\ (phase \in {"interpret", "done"} /\ IsChain(tokens) /\ SameLevel(tokens))
        => /\ ParseReturnedOk
           /\ statements = <<StmtExpr(LeftNested(tokens, 2, Operand(tokens, 1)))>>
    /\ (phase \in {"interpret", "done"} /\ IsPrefixed(tokens))
        => /\ ParseReturnedOk
           /\ statements = <<StmtExpr(PrefixedTree(tokens))>>

\* 1 - 2 - 3 - 4 ; has been parsed
C7_Witness ==
    /\ phase = "done"
    /\ source = <<"1", "-", "2", "-", "3", "-", "4", ";">>
    /\ Len(statements) = 1
    /\ statements[1].expr.left.type = "Binary"
    /\ statements[1].expr.left.left.type = "Binary"

\* - ! 1 * - 2 ; has been parsed
C7_WitnessPrefix ==
    /\ phase = "done"
    /\ source = <<"-", "!", "1", "*", "-", "2", ";">>
    /\ Len(statements) = 1
    /\ statements[1].expr.type = "Binary"
    /\ statements[1].expr.left.type = "Unary"
    /\ statements[1].expr.left.right.type = "Unary"

\* the statement that starts at the iterator is a whole expression followed
\* by a token that is no semicolon
MissingSemicolon ==
    /\ phase = "parse"
    /\ PeekKind(tokens, it) # "Eof"
    /\ LET e == expression(tokens, IF PeekKind(tokens, it) = "Print" THEN it + 1 ELSE it)
       IN  e.res = "ok" /\ PeekKind(tokens, e.it) # "Semicolon"

AfterExpression ==
    expression(tokens, IF PeekKind(tokens, it) = "Print" THEN it + 1 ELSE it).it

\* C8: when a whole expression, of a print or an expression statement, is
\* followed by a token that is no semicolon, parse returns the error
\* "expected ';'" with exactly that token (the Eof token at the end of the
\* input) and no statements, not those parsed before either.
C8_MissingSemicolon ==
    [][MissingSemicolon =>
          /\ phase' = "done"
          /\ error' = Reported("ParsingError",
                               ParsingError("Syntax error: expected ';'",
                                            tokens[AfterExpression]))
          /\ statements' = <<>>]_vars

\* print 1; print 1 <end>: parse has failed on the Eof token after it had
\* parsed a statement
C8_Witness ==
    /\ phase = "done" /\ ParseReturnedErr
    /\ error[1].err.message = "Syntax error: expected ';'"
    /\ error[1].err.token.kind = "Eof"
    /\ statements = <<>>
    /\ Len(tokens) = 6
    /\ tokens[1].kind = "Print" /\ tokens[3].kind = "Semicolon"
    /\ tokens[4].kind = "Print"

----------------------------------------------------------------------------
(* Properties of the evaluator *)

\* interpret was called and has returned
InterpretReturned == phase = "done" /\ ParseReturnedOk

\* the first statement whose expression fails, 0 if none does
FirstFailing(stmts) ==
    IF \A k \in 1..Len(stmts) : evaluate(stmts[k].expr).ok THEN 0
    ELSE CHOOSE k \in 1..Len(stmts) :
            /\ ~evaluate(stmts[k].expr).ok
            /\ \A j \in 1..(k - 1) : evaluate(stmts[j].expr).ok

\* what the print statements among the first n statements print
RECURSIVE Printed(_, _)
Printed(stmts, n) ==
    IF n = 0 THEN <<>>
    ELSE Printed(stmts, n - 1) \o
         (IF stmts[n].type = "Print"
          THEN <<stringify(evaluate(stmts[n].expr).value)>> ELSE <<>>)

\* the expressions evaluated for the first n statements
RECURSIVE Calls(_, _)
Calls(stmts, n) ==
    IF n = 0 THEN <<>> ELSE Calls(stmts, n - 1) \o evaluate(stmts[n].expr).calls

\* C9: interpret runs the statements in order and stops at the first one
\* that fails: the output is that of the print statements before it, no
\* later statement is evaluated, and its error is returned; if none fails,
\* every print statement has printed once, in order.
C9_StopsAtFirstError ==
    InterpretReturned =>
        LET k == FirstFailing(statements)
        IN  IF k = 0
            THEN /\ error = None
                 /\ output = Printed(statements, Len(statements))
                 /\ evaluated = Calls(statements, Len(statements))
            ELSE /\ error = Reported("RuntimeError", evaluate(statements[k].expr).err)
                 /\ output = Printed(statements, k - 1)
                 /\ evaluated = Calls(statements, k)

\* a print, then a failing statement, then a print: one line was printed
C9_Witness ==
    /\ InterpretReturned
    /\ Len(statements) = 3
    /\ FirstFailing(statements) = 2
    /\ statements[1].type = "Print" /\ statements[3].type = "Print"
    /\ Len(output) = 1
    /\ error # None

\* C10: of a Binary node the left operand is evaluated, then the right one,
\* then the operator is applied: an error in the left operand is returned
\* and the right operand is not evaluated, an error in the right operand
\* is returned rather than the operator's own, and this also through ==
\* and !=.
C10_OperandOrder ==
    (InterpretReturned /\ Len(statements) = 1 /\ statements[1].expr.type = "Binary") =>
        LET e == statements[1].expr
            l == evaluate(e.left)
            r == evaluate(e.right)
        IN  /\ ~l.ok => /\ error = Reported("RuntimeError", l.err)
                        /\ evaluated = <<e>> \o l.calls
            /\ (l.ok /\ ~r.ok) => /\ error = Reported("RuntimeError", r.err)
                                  /\ evaluated = <<e>> \o l.calls \o r.calls
            /\ (l.ok /\ r.ok) => evaluated = <<e>> \o l.calls \o r.calls

\* "a" < -nil: the error is that of the right operand, on line 3, not the
\* operator's, on line 2
C10_Witness ==
    /\ InterpretReturned
    /\ Len(statements) = 1
    /\ statements[1].expr.type = "Binary"
    /\ statements[1].expr.op.kind = "Less"
    /\ statements[1].expr.left = Literal(Some(String(<<"a">>)))
    /\ ~evaluate(statements[1].expr.right).ok
    /\ error # None /\ error[1].err.loc = single(3)

\* -nil == -"a": both operands fail, the error is the left one's, on line 1
C10_WitnessLeft ==
    /\ InterpretReturned
    /\ Len(statements) = 1
    /\ statements[1].expr.type = "Binary"
    /\ statements[1].expr.op.kind = "EqualEqual"
    /\ statements[1].expr.op.loc = single(2)
    /\ ~evaluate(statements[1].expr.left).ok
    /\ ~evaluate(statements[1].expr.right).ok
    /\ error # None /\ error[1].err.loc = single(1)

----------------------------------------------------------------------------
(* Properties of the operators *)

\* run has returned from a program of one statement, print e ;
PrintedOne == InterpretReturned /\ Len(statements) = 1 /\ statements[1].type = "Print"

\* two values are both nil, or of the same variant with equal contents; the
\* zeros of either sign count as equal numbers
SameValue(a, b) ==
    IF a = None \/ b = None THEN a = b
    ELSE /\ a[1].type = b[1].type
         /\ \/ a[1] = b[1]
            \/ a[1].type = "Number" /\ IsZero(a[1]) /\ IsZero(b[1])

IsEqualityOf(e) == e.type = "Binary" /\ e.op.kind \in {"EqualEqual", "BangEqual"}

C11_EqualityButNaN ==
    (PrintedOne /\ IsEqualityOf(statements[1].expr)) =>
        LET e == statements[1].expr
            l == evaluate(e.left)
            r == evaluate(e.right)
            same == SameValue(l.value, r.value)
        IN  (l.ok /\ r.ok /\ l.value # Some(NaN) /\ r.value # Some(NaN)) =>
                /\ error = None
                /\ output = <<bool_to_string(IF e.op.kind = "EqualEqual"
                                              THEN same ELSE ~same)>>

NumericKinds == {"Greater", "GreaterEqual", "Less", "LessEqual", "Minus", "Slash", "Star"}

\* the operand types break the type contract of the operator
ViolatesContract(kind, l, r) ==
    IF kind = "Plus"
    THEN ~((IsNumber(l) /\ IsNumber(r)) \/ (IsString(l) /\ IsString(r)))
    ELSE ~(IsNumber(l) /\ IsNumber(r))

\* run has returned from a program of one statement whose expression is a
\* Binary node of one of the operators other than == and !=
RanTypedBinary ==
    /\ InterpretReturned
    /\ Len(statements) = 1
    /\ statements[1].expr.type = "Binary"
    /\ statements[1].expr.op.kind \in NumericKinds \cup {"Plus"}

\* C12: when both operands of a binary operator evaluate successfully, the
\* evaluation fails, with a RuntimeError at the operator's location,
\* exactly when the operand types break the operator's contract: both
\* Number for > >= < <= - / *, both Number or both String for +.  With
\* conforming operands no error is raised, whatever the values.
C12_BinaryTypeErrors ==
    RanTypedBinary =>
        LET e == statements[1].expr
            l == evaluate(e.left)
            r == evaluate(e.right)
        IN  (l.ok /\ r.ok) =>
                IF ViolatesContract(e.op.kind, l.value, r.value)
                THEN /\ error # None
                     /\ error[1].stage = "RuntimeError"
                     /\ error[1].err.loc = e.op.loc
                     /\ output = <<>>
                ELSE /\ error = None
                     /\ statements[1].type = "Print" => Len(output) = 1

\* print 1 + "a"; fails at the operator, on line 2
C12_Witness ==
    /\ RanTypedBinary
    /\ statements[1].type = "Print"
    /\ statements[1].expr.op.kind = "Plus"
    /\ statements[1].expr.left = Literal(Some(Number(1, 1, 1)))
    /\ statements[1].expr.right = Literal(Some(String(<<"a">>)))
    /\ error # None /\ error[1].err.loc = single(2)
    /\ output = <<>>

\* print 1 / 0; raises no error and prints inf
C12_WitnessZeroDivisor ==
    /\ RanTypedBinary
    /\ statements[1].expr.op.kind = "Slash"
    /\ statements[1].expr.left = Literal(Some(Number(1, 1, 1)))
    /\ statements[1].expr.right = Literal(Some(Number(1, 0, 1)))
    /\ error = None
    /\ output = <<<<"i", "n", "f">>>>

\* run has returned from a program of one statement whose expression is a
\* Unary node
RanUnary ==
    /\ InterpretReturned
    /\ Len(statements) = 1
    /\ statements[1].expr.type = "Unary"

\* C13: unary ! raises no error and yields true exactly when the value of
\* its operand is nil or false, and false for every other value (every
\* number, zero included, every string, the empty one included, and true);
\* unary - fails, with a RuntimeError at the operator's location, exactly
\* when its operand is not a Number.
C13_Unary ==
    RanUnary =>
        LET e == statements[1].expr
            r == evaluate(e.right)
            falsy == r.value = None \/ r.value = Some(Bool(FALSE))
        IN  r.ok =>
                /\ e.op.kind = "Bang" =>
                        /\ error = None
                        /\ statements[1].type = "Print" =>
                                output = <<bool_to_string(falsy)>>
                /\ e.op.kind = "Minus" =>
                        IF IsNumber(r.value)
                        THEN error = None
                        ELSE /\ error # None
                             /\ error[1].stage = "RuntimeError"
                             /\ error[1].err.loc = e.op.loc
                             /\ output = <<>>

\* print !0; prints false
C13_Witness ==
    /\ RanUnary
    /\ statements[1].type = "Print"
    /\ statements[1].expr.op.kind = "Bang"
    /\ statements[1].expr.right = Literal(Some(Number(1, 0, 1)))
    /\ error = None
    /\ output = <<bool_to_string(FALSE)>>

\* print !nil; prints true
C13_WitnessNil ==
    /\ RanUnary
    /\ statements[1].expr.op.kind = "Bang"
    /\ statements[1].expr.right = Literal(None)
    /\ output = <<bool_to_string(TRUE)>>

\* print -"a"; fails at the operator, on line 2
C13_WitnessMinus ==
    /\ RanUnary
    /\ statements[1].expr.op.kind = "Minus"
    /\ statements[1].expr.right = Literal(Some(String(<<"a">>)))
    /\ error # None /\ error[1].err.loc = single(2)
    /\ output = <<>>

----------------------------------------------------------------------------
(* Properties of the pipeline *)

\* the stages in the order run goes through them
StageNumber(ph) ==
    CASE ph = "scan" -> 1 [] ph = "parse" -> 2 [] ph = "interpret" -> 3 [] OTHER -> 4

\* scanning the text succeeds, and so does parsing its tokens
ScansOk(src) == scan(src).status = "break"
ParsesOk(src) == ScansOk(src) /\ parse(scan(src).tokens).res = "ok"

SyntaxErrorReported == error # None /\ error[1].stage \in {"LexingError", "ParsingError"}

\* C14: in one run over a unit the stages run in the order scan, parse,
\* interpret, and a stage runs only if the earlier ones succeeded: when the
\* unit has a lexing or parsing error anywhere no statement is executed and
\* nothing is printed; at most one error is reported for a unit; and at the
\* prompt the next line is read and run after an error.
C14_Pipeline ==
    /\ [](/\ phase = "parse" => ScansOk(source)
          /\ (phase = "interpret" \/ output # <<>> \/ evaluated # <<>>) => ParsesOk(source)
          /\ SyntaxErrorReported => (phase = "done" /\ output = <<>> /\ evaluated = <<>>)
          /\ (phase = "done" /\ unit < Len(input)) => ENABLED ReadLine)
    /\ [][unit' = unit =>
            /\ StageNumber(phase') >= StageNumber(phase)
            /\ error # None => UNCHANGED <<error, output, evaluated>>]_vars

\* the first line has printed nothing, for its lexing error after a valid
\* print statement, and the second line has been run and has printed
C14_Witness ==
    /\ unit = 2
    /\ ~ScansOk(input[1])
    /\ input[1][1] = "p"
    /\ phase = "done"
    /\ error = None
    /\ Len(output) = 1

\* a parsing error after a valid print statement: nothing is printed
C14_WitnessParse ==
    /\ unit = 1
    /\ phase = "done"
    /\ ParseReturnedErr
    /\ tokens[1].kind = "Print"
    /\ output = <<>>

\* a line is run after a line that failed at run time
C14_WitnessRuntime ==
    /\ unit = 2
    /\ ParsesOk(input[1])
    /\ \E k \in 1..Len(parse(scan(input[1]).tokens).statements) :
            ~evaluate(parse(scan(input[1]).tokens).statements[k].expr).ok
    /\ phase = "done"

----------------------------------------------------------------------------
(* Properties of the line numbers *)

\* the positions in the text of the first graphemes of the tokens of
\* scan, in order; the Eof token starts past the end of the text
RECURSIVE TokenStarts(_, _, _, _)
TokenStarts(src, p, line, toks) ==
    LET r == scan_round(src, p, line, toks)
    IN  IF r.status = "err" THEN <<>>
        ELSE (IF Len(r.tokens) > Len(toks) THEN <<p>> ELSE <<>>) \o
             (IF r.status = "loop" THEN TokenStarts(src, r.pos, r.line, r.tokens)
              ELSE <<>>)

\* the number of newlines among the first n graphemes of a text
RECURSIVE Newlines(_, _)
Newlines(text, n) ==
    IF n = 0 THEN 0 ELSE Newlines(text, n - 1) + (IF text[n] = "\n" THEN 1 ELSE 0)

\* the lines of the i-th token are those of its place in the text
LinesMatch(starts, i) ==
    /\ tokens[i].loc.line_begin = 1 + Newlines(source, starts[i] - 1)
    /\ tokens[i].kind = "String" =>
            offset(tokens[i].loc) = Newlines(tokens[i].lexeme, Len(tokens[i].lexeme))

\* the text has a comment with nothing between the slashes and the newline
HasEmptyComment(src) ==
    \E p \in 1..(Len(src) - 2) : src[p] = "/" /\ src[p + 1] = "/" /\ src[p + 2] = "\n"

\* C15: every token of a successful scan, the Eof token included, begins
\* on line 1 plus the number of newlines of the text before its first
\* character, and a String token spans as many lines more as there are
\* newlines inside it, for every mix of newlines, comments (empty ones
\* included) and strings of several lines before the token.
C15_LineNumbers ==
    ScanReturnedOk =>
        LET starts == TokenStarts(source, 1, 1, <<>>)
        IN  /\ Len(starts) = Len(tokens)
            /\ \A i \in 1..Len(tokens) : LinesMatch(starts, i)

\* C15 for texts without an empty comment
C15_LineNumbersNoEmptyComment ==
    (ScanReturnedOk /\ ~HasEmptyComment(source)) =>
        LET starts == TokenStarts(source, 1, 1, <<>>)
        IN  /\ Len(starts) = Len(tokens)
            /\ \A i \in 1..Len(tokens) : LinesMatch(starts, i)

----------------------------------------------------------------------------
(* Properties of the parser's cursor *)

RuleNames == {"expression", "equality", "comparison", "term", "factor", "unary", "primary"}

\* C16: on the tokens of a successful scan, which end with the one Eof
\* token, parse returns Ok(statements) or a ParsingError and none of the
\* three panics is reached: while the loop of parse runs the Eof token is
\* still ahead of the cursor; no grammar function leaves the cursor before
\* the place it was called at; and every round of the loop of parse moves
\* the cursor on by at least one token, but for the round that stops at
\* the Eof token.
C16_ParseNeverPanics ==
    /\ [](/\ phase # "panic"
          /\ ScanReturnedOk =>
                /\ parse(tokens).res \in {"ok", "err"}
                /\ it \in 1..(Len(tokens) + 1)
                /\ phase = "parse" => it <= Len(tokens)
                /\ \A name \in RuleNames : \A i \in 1..Len(tokens) :
                        rule(name, tokens, i).it >= i)
    /\ [][phase = "parse" =>
            \/ it' > it
            \/ it' = it /\ tokens[it].kind = "Eof" /\ phase' = "interpret"]_vars

\* ( 1 and the end: expect_closing_paren takes the Eof token and returns
\* the error
C16_Witness ==
    /\ ParseReturnedErr
    /\ Len(tokens) = 3
    /\ tokens[1].kind = "LeftParen"
    /\ error[1].err.token.kind = "Eof"
    /\ error[1].err.message = "Syntax error: expected ')'"
    /\ it = Len(tokens) + 1

\* 1 ; - and the end: primary takes the Eof token in the second round
C16_WitnessPrimary ==
    /\ ParseReturnedErr
    /\ Len(tokens) = 4
    /\ tokens[2].kind = "Semicolon"
    /\ error[1].err.message = "Syntax error: expected primary expression, got EOF"
    /\ it = Len(tokens) + 1

\* 1 and the end: expect_semicolon takes the Eof token
C16_WitnessSemicolon ==
    /\ ParseReturnedErr
    /\ Len(tokens) = 2
    /\ error[1].err.token.kind = "Eof"
    /\ error[1].err.message = "Syntax error: expected ';'"
    /\ it = Len(tokens) + 1

====
